---- MODULE Spec2Model ----
(***************************************************************************)
(* Model of src/src/App.tsx: the before/after image form, the shared       *)
(* hidden canvas, handleSubmit, and the pixel-difference routine           *)
(* generateDifferenceImage with its two nested image-load callbacks.       *)
(*                                                                         *)
(* An image is a record [w, h, data]: data is the flat RGBA byte buffer    *)
(* (4 bytes per pixel, row-major) that getImageData returns for it.  Byte  *)
(* offsets are 0-based as in the source; TLA+ sequences are 1-based, so    *)
(* offset i is element i + 1.                                              *)
(*                                                                         *)
(* Not modelled: the TensorFlow stub and setPredictions (lines 82-99,      *)
(* 179-186), the slider handlers (203-229) and the charts.  No property    *)
(* below reads them and they write none of the state below.                *)
(***************************************************************************)
EXTENDS Integers, Sequences, FiniteSets, Bags, TLC

\* ---------------------------------------------------------------- bounds
\* Largest image width and height the inputs are drawn from.
MaxW == 2
MaxH == 2
\* Most generateDifferenceImage calls whose image loads may be in flight.
MaxPending == 2

\* ------------------------------------------------------------- constants
\* const threshold = 30 (line 148).
Threshold == 30
\* Width and height of a canvas element that sets neither (line 533).
CanvasDefaultWidth == 300
CanvasDefaultHeight == 150
\* What a typed-array read past the end yields (undefined), and what
\* arithmetic on it yields (NaN): lines 144-146.  Bytes are 0..255.
Undefined == -1
\* useState<number | null>(null) for deforestationRate (line 36).
NoRate == -1

\* -------------------------------------------------------------- pixels
\* The pixel values images are built from.  Around (100,100,100,255):
\* one channel moved by exactly the threshold, by threshold + 1 in each
\* of R, G, B, a pixel that differs in alpha only, and transparent black.
Palette ==
    << <<100, 100, 100, 255>>,
       <<130, 100, 100, 255>>,
       <<131, 100, 100, 255>>,
       <<100, 69, 100, 255>>,
       <<100, 100, 131, 255>>,
       <<100, 100, 100, 128>>,
       <<0, 0, 0, 0>> >>

PaletteSize == Len(Palette)

\* Pixel k of a pattern advances d palette entries per pixel: 0 gives a
\* uniform image, 1 an image whose pixels all differ.
Steps == {0, 1}

\* The w x h image whose k-th pixel (row-major) is palette entry
\* (s + k * d) mod PaletteSize.
Img(w, h, s, d) ==
    [ w |-> w, h |-> h,
      data |-> [ i \in 1..(4 * w * h) |->
                   Palette[((s + ((i - 1) \div 4) * d) % PaletteSize) + 1]
                          [((i - 1) % 4) + 1] ] ]

\* useState<string | null>(null): no image selected / no result yet.
NoImage == [ w |-> 0 - 1, h |-> 0 - 1, data |-> << >> ]

IsEmptyImage(img) == img.w = 0 \/ img.h = 0

\* ------------------------------------------------------- typed arrays
\* data[i] of a Uint8ClampedArray: undefined past the end.
At(data, i) == IF i + 1 <= Len(data) THEN data[i + 1] ELSE Undefined

\* Math.abs(x - y): NaN as soon as one operand is undefined.
AbsDiff(x, y) ==
    IF x = Undefined \/ y = Undefined THEN Undefined
    ELSE IF x >= y THEN x - y ELSE y - x

\* Variant of Exceeds: the comparison written >=.
ExceedsOrEqual(d, t) == d # Undefined /\ d >= t

\* d > t in JavaScript: false when d is NaN.
Exceeds(d, t) == d # Undefined /\ d > t

\* Storing v into a Uint8ClampedArray: undefined is stored as 0.
ToUint8Clamped(v) == IF v = Undefined THEN 0 ELSE v

\* data[i] = v; a store past the end is ignored.
Store(data, i, v) ==
    IF i + 1 <= Len(data)
    THEN [ data EXCEPT ![i + 1] = ToUint8Clamped(v) ]
    ELSE data

Zeros(n) == [ i \in 1..n |-> 0 ]

\* ctx.createImageData(w, h): transparent black.
CreateImageData(w, h) == [ w |-> w, h |-> h, data |-> Zeros(4 * w * h) ]

Min(a, b) == IF a <= b THEN a ELSE b
Max(a, b) == IF a >= b THEN a ELSE b

\* ---------------------------------------------------------- the canvas
\* A canvas bitmap is [w, h, data] where data holds the bytes up to the
\* last non-zero one; every byte after it is 0 (transparent black).
RECURSIVE Trim(_)
Trim(seq) ==
    IF Len(seq) = 0 \/ seq[Len(seq)] # 0 THEN seq
    ELSE Trim(SubSeq(seq, 1, Len(seq) - 1))

ByteAt(bm, off) == IF off + 1 <= Len(bm.data) THEN bm.data[off + 1] ELSE 0

\* canvas.width = w; canvas.height = h: resizes and clears the bitmap.
SetCanvasSize(cv, w, h) == [ w |-> w, h |-> h, data |-> << >> ]

\* Source-over compositing of channel c (0..3) of one pixel.  A source
\* pixel over transparent black is the source pixel.
Over(src, dst, c) ==
    IF src[4] = 0 THEN dst[c + 1]
    ELSE IF dst[4] = 0 \/ src[4] = 255 THEN src[c + 1]
    ELSE IF c = 3 THEN src[4] + (dst[4] * (255 - src[4])) \div 255
    ELSE (src[c + 1] * src[4] + dst[c + 1] * (255 - src[4])) \div 255

\* The bitmap cv after img's pixels are written at (0, 0), clipped to
\* the canvas; composite says whether they are blended or stored.
Paint(cv, img, composite) ==
    LET cols == Min(img.w, cv.w)
        rows == Min(img.h, cv.h)
        reach == IF cols <= 0 \/ rows <= 0 THEN 0
                 ELSE 4 * ((rows - 1) * cv.w + cols)
        n == Max(Len(cv.data), reach)
        byte(off) ==
            LET px == off \div 4
                c == off % 4
                x == px % cv.w
                y == px \div cv.w
                so == 4 * (y * img.w + x)
                src == << img.data[so + 1], img.data[so + 2],
                          img.data[so + 3], img.data[so + 4] >>
                dst == << ByteAt(cv, 4 * px), ByteAt(cv, 4 * px + 1),
                          ByteAt(cv, 4 * px + 2), ByteAt(cv, 4 * px + 3) >>
            IN  IF x < img.w /\ y < img.h
                THEN IF composite THEN Over(src, dst, c) ELSE src[c + 1]
                ELSE ByteAt(cv, off)
    IN  [ cv EXCEPT !.data = Trim([ i \in 1..n |-> byte(i - 1) ]) ]

\* ctx.drawImage(img, 0, 0).  An image of zero width or height draws
\* nothing.
DrawImage(cv, img) == Paint(cv, img, TRUE)

\* ctx.putImageData(imgData, 0, 0): stores the bytes, no blending.
PutImageData(cv, imgData) == Paint(cv, imgData, FALSE)

\* ctx.getImageData(0, 0, canvas.width, canvas.height).
ReadCanvas(cv) ==
    [ w |-> cv.w, h |-> cv.h,
      data |-> [ i \in 1..(4 * cv.w * cv.h) |-> ByteAt(cv, i - 1) ] ]

\* getImageData(img): a fresh canvas of the image's size, the image drawn
\* on it, the bytes read back.  ctx.getImageData throws IndexSizeError
\* when the width or the height is 0.  The fresh canvas is taken to give
\* its 2d context, so the throw of line 198 is not taken.
GetImageDataThrows(img) == IsEmptyImage(img)

GetImageData(img) ==
    ReadCanvas(DrawImage(SetCanvasSize(NoImage, img.w, img.h), img))

\* canvas.toDataURL(): a PNG data URL, which holds exactly the bitmap's
\* width, height and bytes.
ToDataURL(cv) ==
    [ mime |-> "image/png", w |-> cv.w, h |-> cv.h, data |-> cv.data ]

\* useState<string | null>(null) for resultImage (line 35).
NoResult == [ mime |-> "", w |-> 0 - 1, h |-> 0 - 1, data |-> << >> ]

\* ------------------------------------------------------------ the scan
\* The condition of line 149 at byte offset i (lines 144-149).
IsChanged(bd, ad, i) ==
    LET rDiff == AbsDiff(At(bd, i), At(ad, i))
        gDiff == AbsDiff(At(bd, i + 1), At(ad, i + 1))
        bDiff == AbsDiff(At(bd, i + 2), At(ad, i + 2))
    IN  \/ Exceeds(rDiff, Threshold)
        \/ Exceeds(gDiff, Threshold)
        \/ Exceeds(bDiff, Threshold)

\* Variant of StoreFlag: the flag written fully opaque.
StoreFlagOpaque(data, i) ==
    Store(Store(Store(Store(data, i, 255), i + 1, 0), i + 2, 0), i + 3, 255)

\* The four stores of the changed branch (lines 151-154).
StoreFlag(data, i) ==
    Store(Store(Store(Store(data, i, 255), i + 1, 0), i + 2, 0), i + 3, 128)

\* Variant of StoreAfter: the alpha store of line 159 left out.
StoreAfterNoAlpha(data, ad, i) ==
    Store(Store(Store(data, i, At(ad, i)), i + 1, At(ad, i + 1)),
          i + 2, At(ad, i + 2))

\* The four stores of the unchanged branch (lines 156-159).
StoreAfter(data, ad, i) ==
    Store(Store(Store(Store(data, i, At(ad, i)),
                      i + 1, At(ad, i + 1)),
                i + 2, At(ad, i + 2)),
          i + 3, At(ad, i + 3))

\* Variant of ScanStep: the counter advanced once per channel over the
\* threshold instead of once per pixel.
ScanStepPerChannel(bd, ad, i, acc) ==
    LET over(c) == IF Exceeds(AbsDiff(At(bd, i + c), At(ad, i + c)), Threshold)
                   THEN 1 ELSE 0
    IN  IF IsChanged(bd, ad, i)
        THEN [ count |-> acc.count + over(0) + over(1) + over(2),
               data |-> StoreFlag(acc.data, i),
               mask |-> acc.mask \cup { i \div 4 } ]
        ELSE [ count |-> acc.count, data |-> StoreAfter(acc.data, ad, i),
               mask |-> acc.mask ]

\* Variant of ScanStep: the "changed" decision kept in a variable declared
\* outside the loop and never reset, so it sticks once a pixel changed.
ScanStepSticky(bd, ad, i, acc) ==
    IF IsChanged(bd, ad, i) \/ acc.count > 0
    THEN [ count |-> acc.count + 1, data |-> StoreFlag(acc.data, i),
           mask |-> acc.mask \cup { i \div 4 } ]
    ELSE [ count |-> acc.count, data |-> StoreAfter(acc.data, ad, i),
           mask |-> acc.mask ]

\* One iteration of the loop body (lines 144-160).  acc holds
\* totalChangedPixels (count), diffData.data (data) and, as history, the
\* pixel indices i / 4 at which the changed branch was taken (mask).
ScanStep(bd, ad, i, acc) ==
    IF IsChanged(bd, ad, i)
    THEN [ count |-> acc.count + 1, data |-> StoreFlag(acc.data, i),
           mask |-> acc.mask \cup { i \div 4 } ]
    ELSE [ count |-> acc.count, data |-> StoreAfter(acc.data, ad, i),
           mask |-> acc.mask ]

\* let totalChangedPixels = 0 and the fresh diffData (lines 139, 142).
ScanStart(diffData) == [ count |-> 0, data |-> diffData.data, mask |-> {} ]

\* for (let i = from; i < to; i += 4) (line 143 runs it from 0 to
\* beforeImgData.data.length).
RECURSIVE ScanLoop(_, _, _, _, _)
ScanLoop(bd, ad, i, to, acc) ==
    IF i >= to THEN acc
    ELSE ScanLoop(bd, ad, i + 4, to, ScanStep(bd, ad, i, acc))

\* The range of the loop of line 143.
ScanEnd(bd, ad) == Len(bd)

\* The pixel count the ratio is taken over (line 167).
TotalPixels(cv) == cv.w * cv.h

\* Variant of ResizeCanvas: the canvas sized to the "after" image.
ResizeCanvasToAfter(cv, beforeImg, afterImg) ==
    SetCanvasSize(cv, afterImg.w, afterImg.h)

\* Variant of ResizeCanvas: the canvas is only ever made smaller.
ResizeCanvasShrinkOnly(cv, beforeImg, afterImg) ==
    SetCanvasSize(cv, Min(cv.w, beforeImg.w), Min(cv.h, beforeImg.h))

\* The size the shared canvas is given (lines 128-129).
ResizeCanvas(cv, beforeImg, afterImg) ==
    SetCanvasSize(cv, beforeImg.w, beforeImg.h)

\* The body of afterImg.onload (lines 128-176) run on canvas cv: the
\* canvas it leaves, whether it threw, and what it passed to
\* setResultImage and setEnvironmentalImpact.
OnloadBody(cv, beforeImg, afterImg) ==
    LET cv1 == ResizeCanvas(cv, beforeImg, afterImg)
        cv2 == DrawImage(cv1, afterImg)
    IN  IF GetImageDataThrows(beforeImg) \/ GetImageDataThrows(afterImg)
        THEN [ threw |-> TRUE, canvas |-> cv2, result |-> NoResult,
               changed |-> 0, total |-> 0, mask |-> {} ]
        ELSE
          LET beforeImgData == GetImageData(beforeImg)
              afterImgData == GetImageData(afterImg)
              diffData == CreateImageData(cv2.w, cv2.h)
              scan == ScanLoop(beforeImgData.data, afterImgData.data, 0,
                               ScanEnd(beforeImgData.data, afterImgData.data),
                               ScanStart(diffData))
              cv3 == PutImageData(cv2, [ diffData EXCEPT !.data = scan.data ])
          IN  [ threw |-> FALSE, canvas |-> cv3, result |-> ToDataURL(cv3),
                changed |-> scan.count, total |-> TotalPixels(cv3),
                mask |-> scan.mask ]

\* --------------------------------------------------------------- inputs
\* Every image the comparison is run on: each size up to MaxW x MaxH,
\* the empty sizes included, in every pattern.
Images ==
    { Img(w, h, s, d) : w \in 0..MaxW, h \in 0..MaxH,
                        s \in 0..(PaletteSize - 1), d \in Steps }

\* The files a user of the form picks from: a 1x1 image and a 2x1 image.
Files == { Img(1, 1, 0, 0), Img(2, 1, 2, 1) }

\* Values Math.random() * 30 may take (line 240).
RateSamples == {0, 15}

\* useState<string | null>(null) for error (line 38), and the message of
\* line 243.
NoError == ""
ErrorMessage == "An error occurred while processing the images"

\* useState<...| null>(null) for environmentalImpact (line 45).
NoImpact == [ changed |-> 0 - 1, total |-> 0 - 1 ]

\* ---------------------------------------------------------------- state
VARIABLES
    beforeImage,          \* the image picked as "before", or NoImage
    afterImage,           \* the image picked as "after", or NoImage
    resultImage,          \* the overlay's data URL, or NoResult
    deforestationRate,    \* the random rate, or NoRate
    loading,              \* the submit button's busy flag
    error,                \* the error banner's text, or NoError
    environmentalImpact,  \* [changed, total] behind the three impact
                          \* figures (ratio * 250, * 180, * 150), or NoImpact
    canvas,               \* the bitmap of the hidden canvas (canvasRef)
    pending,              \* bag of generateDifferenceImage calls whose image
                          \* loads are in flight: [before, after, stage]
    settled,              \* history: the images and the outcome of the
                          \* call that ended last, the pixel indices its
                          \* scan took the changed branch at, and the
                          \* canvas its callback found
    refused               \* history: the step just taken was a handleSubmit
                          \* whose generateDifferenceImage call returned at
                          \* line 121 (no 2d context) before starting a load

vars == << beforeImage, afterImage, resultImage, deforestationRate, loading,
           error, environmentalImpact, canvas, pending, settled, refused >>

\* The hidden canvas as mounted (line 533): default size, nothing drawn.
DefaultCanvas ==
    [ w |-> CanvasDefaultWidth, h |-> CanvasDefaultHeight, data |-> << >> ]

\* No call has ended yet.
NothingSettled ==
    [ before |-> NoImage, after |-> NoImage, outcome |-> "none",
      mask |-> {}, canvasWas |-> DefaultCanvas ]

\* The state of a freshly mounted App (lines 33-49, 533).
Mounted ==
    /\ resultImage = NoResult
    /\ deforestationRate = NoRate
    /\ loading = FALSE
    /\ error = NoError
    /\ environmentalImpact = NoImpact
    /\ canvas = DefaultCanvas
    /\ pending = EmptyBag
    /\ settled = NothingSettled
    /\ refused = FALSE

Init ==
    /\ beforeImage = NoImage
    /\ afterImage = NoImage
    /\ Mounted

\* ------------------------------------------------------------- actions
\* handleImageUpload with its FileReader callback (lines 101-114).
HandleImageUpload(type, file) ==
    /\ IF type = "before"
       THEN beforeImage' = file /\ UNCHANGED afterImage
       ELSE afterImage' = file /\ UNCHANGED beforeImage
    /\ refused' = FALSE
    /\ UNCHANGED << resultImage, deforestationRate, loading, error,
                    environmentalImpact, canvas, pending, settled >>

\* Variant of GenerateDifferenceImage: afterImg.onload and afterImg.src
\* are set next to beforeImg's instead of inside beforeImg.onload, so the
\* call waits for the "after" image only.
GenerateDifferenceImageUnnested(calls, before, after, ctxOk) ==
    IF before = NoImage \/ after = NoImage \/ ~ctxOk
    THEN calls
    ELSE calls (+) SetToBag({ [ before |-> before, after |-> after,
                                stage |-> "after" ] })

\* The synchronous part of generateDifferenceImage (lines 117-124, 190):
\* the bag of calls in flight after a call made with these images.
GenerateDifferenceImage(calls, before, after, ctxOk) ==
    IF before = NoImage \/ after = NoImage \/ ~ctxOk
    THEN calls
    ELSE calls (+) SetToBag({ [ before |-> before, after |-> after,
                                stage |-> "before" ] })

\* A click on "Detect Changes" (button enabled: line 305) running
\* handleSubmit to its end (lines 231-247): it awaits nothing, so
\* setLoading(true) (line 235) and setLoading(false) (line 245) both run
\* before any image load.  Nothing in the try block throws, so the catch
\* branch is never taken.
HandleSubmit ==
    /\ beforeImage # NoImage /\ afterImage # NoImage /\ ~loading
    /\ \E ctxOk \in BOOLEAN, rate \in RateSamples :
         /\ ctxOk => BagCardinality(pending) < MaxPending
         /\ pending' = GenerateDifferenceImage(pending, beforeImage,
                                               afterImage, ctxOk)
         /\ deforestationRate' = rate
         /\ error' = NoError
         /\ loading' = FALSE
         /\ refused' = ~ctxOk
    /\ UNCHANGED << beforeImage, afterImage, resultImage,
                    environmentalImpact, canvas, settled >>

\* beforeImg.onload (lines 126, 188): the "after" image starts loading.
BeforeOnload(p) ==
    /\ BagIn(p, pending) /\ p.stage = "before"
    /\ pending' = (pending (-) SetToBag({p}))
                    (+) SetToBag({ [ p EXCEPT !.stage = "after" ] })
    /\ refused' = FALSE
    /\ UNCHANGED << beforeImage, afterImage, resultImage, deforestationRate,
                    loading, error, environmentalImpact, canvas, settled >>

\* The image being loaded has no size and the browser reports it as
\* broken: no onerror handler is set (lines 123-124), the call just ends.
LoadError(p) ==
    /\ BagIn(p, pending)
    /\ IsEmptyImage(IF p.stage = "before" THEN p.before ELSE p.after)
    /\ pending' = pending (-) SetToBag({p})
    /\ settled' = [ before |-> p.before, after |-> p.after,
                    outcome |-> "loaderror", mask |-> {},
                    canvasWas |-> canvas ]
    /\ refused' = FALSE
    /\ UNCHANGED << beforeImage, afterImage, resultImage, deforestationRate,
                    loading, error, environmentalImpact, canvas >>

\* afterImg.onload (lines 127-187).  An exception of getImageData leaves
\* the callback uncaught: no handler of handleSubmit is on the stack.
AfterOnload(p) ==
    /\ BagIn(p, pending) /\ p.stage = "after"
    /\ pending' = pending (-) SetToBag({p})
    /\ refused' = FALSE
    /\ \E run \in { OnloadBody(canvas, p.before, p.after) } :
           /\ canvas' = run.canvas
           /\ IF run.threw
              THEN /\ settled' = [ before |-> p.before, after |-> p.after,
                                   outcome |-> "threw", mask |-> {},
                                   canvasWas |-> canvas ]
                   /\ UNCHANGED << resultImage, environmentalImpact >>
              ELSE /\ settled' = [ before |-> p.before, after |-> p.after,
                                   outcome |-> "result", mask |-> run.mask,
                                   canvasWas |-> canvas ]
                   /\ resultImage' = run.result
                   /\ environmentalImpact' =
                        [ changed |-> run.changed, total |-> run.total ]
    /\ UNCHANGED << beforeImage, afterImage, deforestationRate, loading,
                    error >>

\* The form used freely with the files of Files, which all have a size:
\* their loads never fail, so LoadError has no part here.
Next ==
    \/ \E type \in {"before", "after"}, file \in Files :
          HandleImageUpload(type, file)
    \/ HandleSubmit
    \/ \E p \in BagToSet(pending) : BeforeOnload(p)
    \/ \E p \in BagToSet(pending) : AfterOnload(p)

Spec == Init /\ [][Next]_vars

\* One comparison of each pair of images: the form already holds the two
\* images, and one submission is followed to its end.
InitScan ==
    /\ beforeImage \in Images
    /\ afterImage \in Images
    /\ Mounted

SubmitOnce ==
    /\ pending = EmptyBag /\ settled.outcome = "none"
    /\ HandleSubmit

NextScan ==
    \/ SubmitOnce
    \/ \E p \in BagToSet(pending) : BeforeOnload(p)
    \/ \E p \in BagToSet(pending) : LoadError(p)
    \/ \E p \in BagToSet(pending) : AfterOnload(p)

SpecScan == InitScan /\ [][NextScan]_vars

\* ------------------------------------------------------------ properties
\* What the properties read: the call that ended last, when it produced a
\* result, its two images, and the pixels of its overlay.
HasResult == settled.outcome = "result"
BeforeOf == settled.before
AfterOf == settled.after
NumPixels(img) == img.w * img.h
SameSize(a, b) == a.w = b.w /\ a.h = b.h

\* Pixel k (row-major) of an image, and of the overlay held by resultImage.
PixelOf(img, k) ==
    << img.data[4 * k + 1], img.data[4 * k + 2],
       img.data[4 * k + 3], img.data[4 * k + 4] >>
OverlayPixel(k) ==
    << ByteAt(resultImage, 4 * k), ByteAt(resultImage, 4 * k + 1),
       ByteAt(resultImage, 4 * k + 2), ByteAt(resultImage, 4 * k + 3) >>

\* Channel c (1..3) of the two pixels differs by more than 30.
FarApart(p, q, c) == p[c] - q[c] > 30 \/ q[c] - p[c] > 30

\* C1: a comparison of two non-empty images, of equal or different sizes,
\* ends with a result in which the changed-pixel count lies between 0 and
\* the total pixel count, the total being the positive pixel count of the
\* overlay's grid (so the ratio is in [0,1]).
Thm_C1_CountWithinTotal ==
    ( /\ settled.outcome # "none"
      /\ ~IsEmptyImage(BeforeOf) /\ ~IsEmptyImage(AfterOf) ) =>
        /\ HasResult
        /\ 0 <= environmentalImpact.changed
        /\ environmentalImpact.changed <= environmentalImpact.total
        /\ environmentalImpact.total = resultImage.w * resultImage.h
        /\ environmentalImpact.total > 0

\* A comparison of images of different sizes in which every pixel of a
\* grid of two or more pixels changed.
Wit_C1_AllChanged ==
    /\ HasResult
    /\ ~SameSize(BeforeOf, AfterOf)
    /\ environmentalImpact.total >= 2
    /\ environmentalImpact.changed = environmentalImpact.total

\* C2: at every pixel index at which both images have a pixel, the scan
\* took the changed branch exactly when R, G or B differs by more than
\* 30; the alpha bytes play no part.
Thm_C2_ChangedIffOverThreshold ==
    HasResult =>
        \A k \in 0..(Min(NumPixels(BeforeOf), NumPixels(AfterOf)) - 1) :
            (k \in settled.mask) <=>
                \E c \in 1..3 :
                    FarApart(PixelOf(BeforeOf, k), PixelOf(AfterOf, k), c)

\* One comparison holding a pixel whose R moved by exactly 30 (not
\* changed) and a pixel whose R moved by 31 (changed).
Wit_C2_Boundary ==
    /\ HasResult
    /\ \E k \in 0..(Min(NumPixels(BeforeOf), NumPixels(AfterOf)) - 1) :
          /\ PixelOf(BeforeOf, k) = <<100, 100, 100, 255>>
          /\ PixelOf(AfterOf, k) = <<130, 100, 100, 255>>
          /\ k \notin settled.mask
    /\ \E k \in 0..(Min(NumPixels(BeforeOf), NumPixels(AfterOf)) - 1) :
          /\ PixelOf(BeforeOf, k) = <<100, 100, 100, 255>>
          /\ PixelOf(AfterOf, k) = <<131, 100, 100, 255>>
          /\ k \in settled.mask

\* C3: after the scan every overlay pixel where the changed branch was
\* taken is (255,0,0,128), every other overlay pixel is the "after" pixel
\* of the same buffer index, and the count is the number of changed
\* pixels.
Thm_C3_OverlayAndCount ==
    HasResult =>
        /\ \A k \in 0..(NumPixels(BeforeOf) - 1) :
              /\ k \in settled.mask => OverlayPixel(k) = <<255, 0, 0, 128>>
              /\ (k \notin settled.mask /\ k < NumPixels(AfterOf)) =>
                     OverlayPixel(k) = PixelOf(AfterOf, k)
        /\ settled.mask \subseteq 0..(NumPixels(BeforeOf) - 1)
        /\ environmentalImpact.changed = Cardinality(settled.mask)

\* A 2x2 comparison in which every pixel changed: the ratio is 1 and the
\* whole overlay is the flag colour.
Wit_C3_FullChange ==
    /\ HasResult
    /\ BeforeOf.w = 2 /\ BeforeOf.h = 2 /\ SameSize(BeforeOf, AfterOf)
    /\ environmentalImpact.changed = 4 /\ environmentalImpact.total = 4
    /\ \A k \in 0..3 : OverlayPixel(k) = <<255, 0, 0, 128>>

\* C4: comparing an image with itself gives a count of 0 and an overlay
\* equal to the image in size and in all four channels of every pixel.
Thm_C4_Identity ==
    (HasResult /\ BeforeOf = AfterOf) =>
        /\ environmentalImpact.changed = 0
        /\ resultImage.w = BeforeOf.w /\ resultImage.h = BeforeOf.h
        /\ \A k \in 0..(NumPixels(BeforeOf) - 1) :
              OverlayPixel(k) = PixelOf(BeforeOf, k)

\* A 2x2 image of four different pixels compared with itself.
Wit_C4_Identity ==
    /\ HasResult /\ BeforeOf = AfterOf
    /\ BeforeOf.w = 2 /\ BeforeOf.h = 2
    /\ \A j, k \in 0..3 : j # k => PixelOf(BeforeOf, j) # PixelOf(BeforeOf, k)

\* C5: a comparison of two non-empty images of different sizes ends with
\* a result; the overlay has the width and height of the "before" image,
\* the total is that grid's pixel count and only its pixels are counted.
Thm_C5_OverlayHasBeforeSize ==
    ( /\ settled.outcome # "none"
      /\ ~IsEmptyImage(BeforeOf) /\ ~IsEmptyImage(AfterOf)
      /\ ~SameSize(BeforeOf, AfterOf) ) =>
        /\ HasResult
        /\ resultImage.w = BeforeOf.w /\ resultImage.h = BeforeOf.h
        /\ environmentalImpact.total = BeforeOf.w * BeforeOf.h
        /\ settled.mask \subseteq 0..(BeforeOf.w * BeforeOf.h - 1)

\* A 1x2 "before" compared with a larger 2x2 "after": a 1x2 overlay over
\* 2 pixels.
Wit_C5_SmallerBefore ==
    /\ HasResult
    /\ BeforeOf.w = 1 /\ BeforeOf.h = 2 /\ AfterOf.w = 2 /\ AfterOf.h = 2
    /\ resultImage.w = 1 /\ resultImage.h = 2
    /\ environmentalImpact.total = 2

\* C6 as claimed: when the sizes differ, position (x, y) of the "before"
\* grid is compared with the "after" pixel at the same (x, y), read as
\* (0,0,0,0) outside the "after" image, and is changed exactly when R, G
\* or B of the two differs by more than 30.
CE_C6_SamePositionOrTransparent ==
    (HasResult /\ ~SameSize(BeforeOf, AfterOf)) =>
        \A x \in 0..(BeforeOf.w - 1), y \in 0..(BeforeOf.h - 1) :
            LET k == y * BeforeOf.w + x
                sample == IF x < AfterOf.w /\ y < AfterOf.h
                          THEN PixelOf(AfterOf, y * AfterOf.w + x)
                          ELSE <<0, 0, 0, 0>>
            IN  (k \in settled.mask) <=>
                    \E c \in 1..3 : FarApart(PixelOf(BeforeOf, k), sample, c)

\* C7 as claimed: a comparison with an image of zero width or height ends
\* without a result and with the failure reported to the caller.
CE_C7_EmptyImageReported ==
    ( /\ settled.outcome # "none"
      /\ (IsEmptyImage(BeforeOf) \/ IsEmptyImage(AfterOf)) ) =>
        /\ ~HasResult
        /\ resultImage = NoResult
        /\ error = ErrorMessage

\* C8: whatever was compared before, whatever the shared canvas held and
\* whatever rate was drawn, a comparison's overlay and counts are those
\* the same two images give on the canvas as mounted; so two comparisons
\* of the same images give the same bytes and the same count.
Thm_C8_Deterministic ==
    HasResult =>
        LET fresh == OnloadBody(DefaultCanvas, BeforeOf, AfterOf)
        IN  /\ resultImage = fresh.result
            /\ environmentalImpact.changed = fresh.changed
            /\ environmentalImpact.total = fresh.total

\* A comparison that found the canvas holding the overlay of an earlier
\* comparison of another size, while another call is still in flight.
Wit_C8_DirtyCanvas ==
    /\ HasResult
    /\ settled.canvasWas # DefaultCanvas
    /\ settled.canvasWas.data # << >>
    /\ settled.canvasWas.w # BeforeOf.w
    /\ pending # EmptyBag
    /\ deforestationRate = 15

\* The scan restricted to the rows first..(last - 1) of the "before"
\* grid, run on its own: a fresh counter and a fresh buffer.
RowShard(bd, ad, first, last) ==
    ScanLoop(bd, ad, 4 * BeforeOf.w * first, 4 * BeforeOf.w * last,
             ScanStart(CreateImageData(BeforeOf.w, BeforeOf.h)))

\* The row that ends the shard starting at row first, for the cut rows.
ShardEnd(first, cuts) ==
    CHOOSE e \in cuts \cup { BeforeOf.h } :
        e > first /\ \A f \in cuts \cup { BeforeOf.h } : f > first => e <= f

\* The sum of the counts of the shards that start at the rows of starts.
RECURSIVE SumOfShardCounts(_, _, _, _)
SumOfShardCounts(bd, ad, starts, cuts) ==
    IF starts = {} THEN 0
    ELSE LET first == CHOOSE r \in starts : TRUE
         IN  RowShard(bd, ad, first, ShardEnd(first, cuts)).count
               + SumOfShardCounts(bd, ad, starts \ { first }, cuts)

\* The bytes of the overlay held by resultImage from offset lo to hi - 1.
OverlayBytes(lo, hi) == [ j \in 1..(hi - lo) |-> ByteAt(resultImage, lo + j - 1) ]

\* C9: for every way of cutting the grid into ranges of whole rows, the
\* counts of the ranges scanned on their own add up to the count of the
\* one scan, and each range's overlay pixels are those of the one scan.
Thm_C9_RowShardsAgree ==
    HasResult =>
        LET bd == GetImageData(BeforeOf).data
            ad == GetImageData(AfterOf).data
        IN  \A cuts \in SUBSET (1..(BeforeOf.h - 1)) :
              /\ SumOfShardCounts(bd, ad, {0} \cup cuts, cuts)
                   = environmentalImpact.changed
              /\ \A first \in {0} \cup cuts :
                   LET last == ShardEnd(first, cuts)
                       lo == 4 * BeforeOf.w * first
                       hi == 4 * BeforeOf.w * last
                       shard == RowShard(bd, ad, first, last)
                   IN  SubSeq(shard.data, lo + 1, hi) = OverlayBytes(lo, hi)

\* A two-row comparison with a changed pixel in each row and an unchanged
\* pixel after a changed one.
Wit_C9_BothRowsChanged ==
    /\ HasResult
    /\ BeforeOf.w = 2 /\ BeforeOf.h = 2
    /\ 0 \in settled.mask /\ 1 \notin settled.mask
    /\ 2 \in settled.mask

\* C10 as claimed: while a difference computation is in flight loading is
\* true, and no second one is started before the first has ended.
CE_C10_LoadingWhilePending ==
    /\ pending # EmptyBag => loading
    /\ BagCardinality(pending) <= 1

\* C11 as claimed: a submitted computation that fails sets error to the
\* message of line 243; no submission ends without a new result image and
\* with error still null.
CE_C11_FailureSetsError ==
    (settled.outcome \in {"threw", "loaderror"} \/ refused) =>
        error = ErrorMessage

\* The number of copies of call q in flight.
InFlight(calls, q) == IF BagIn(q, calls) THEN calls[q] ELSE 0

\* The calls in flight before or after a step.
CallsOf(a, b) == BagToSet(a) \cup BagToSet(b)

\* C12: a step that draws on the canvas or sets resultImage or
\* environmentalImpact ends a call whose two images have loaded; a call
\* comes to wait for its "after" image only by its "before" image having
\* loaded, and starts by waiting for the "before" image; a call that finds
\* no 2d context, and any step taken while an image is missing, starts no
\* load and changes no result state.
Thm_C12_ScanAfterBothLoads ==
    [][ /\ ( \/ resultImage' # resultImage
             \/ environmentalImpact' # environmentalImpact
             \/ canvas' # canvas ) =>
               \E p \in BagToSet(pending) :
                   /\ p.stage = "after"
                   /\ pending' = pending (-) SetToBag({p})
                   /\ settled'.before = p.before /\ settled'.after = p.after
        /\ \A q \in CallsOf(pending, pending') :
               /\ (q.stage = "after"
                     /\ InFlight(pending', q) > InFlight(pending, q)) =>
                      InFlight(pending', [ q EXCEPT !.stage = "before" ])
                        < InFlight(pending, [ q EXCEPT !.stage = "before" ])
               /\ (q.stage = "before"
                     /\ InFlight(pending', q) > InFlight(pending, q)) =>
                      /\ q.before = beforeImage /\ q.after = afterImage
                      /\ q.before # NoImage /\ q.after # NoImage
                      /\ ~refused'
        /\ (refused' \/ beforeImage = NoImage \/ afterImage = NoImage) =>
               /\ pending' = pending
               /\ resultImage' = resultImage
               /\ environmentalImpact' = environmentalImpact
               /\ canvas' = canvas
      ]_vars

\* A call has produced its result, another is still waiting for its
\* "after" image, and the submission just made found no 2d context.
Wit_C12_RefusedWhileLoading ==
    /\ HasResult
    /\ refused
    /\ \E q \in BagToSet(pending) : q.stage = "after"

====
